---- MODULE Spec2Model ----
(***************************************************************************)
(* ThinkBot backend: a socket.io chat relay that forwards a user's message *)
(* to an upstream text-generation API and relays the reply in chunks.      *)
(* The model follows the Gemini server (conversation history, retry with   *)
(* backoff, simulated streaming) and the OpenRouter server (retry with     *)
(* backoff, single chunk, no history), and, as HFSpec, the Hugging Face    *)
(* server (model check, loop of five attempts).  One step is one run       *)
(* of the Node event loop: a handler runs from the event (or from the      *)
(* resolution of the promise it awaits) to its next await or to its end.   *)
(***************************************************************************)
EXTENDS Integers, Sequences, FiniteSets, TLC

\* ------------------------------------------------------------------ bounds
MaxMsgs == 2            \* user_message events in one behaviour
MaxInFlight == 2        \* handler invocations that can be suspended at once
MaxMsgLen == 2          \* characters of a user_message payload
MaxTextLen == 11        \* characters of a generated text given to the chunker

\* ------------------------------------------------------- program constants
maxRetries == 3
backoffBase == 1000
backoffCap == 10000
HistoryCap == 10
wordsPerFlush == 4
chunkPause == 50

\* ------------------------------------------------------------- value sets
Sockets == {"s1", "s2"}
Variants == {"gemini", "openrouter"}

\* JavaScript undefined: a value outside the domain of texts (texts are
\* sequences of one-character strings).
Undefined == <<"undefined">>

Chars == {" ", "a"}

RECURSIVE SeqsUpTo(_)
SeqsUpTo(n) ==
  IF n = 0 THEN {<<>>}
  ELSE LET S == SeqsUpTo(n - 1)
       IN S \cup {Append(s, c) : s \in {t \in S : Len(t) = n - 1}, c \in Chars}

\* payloads a client can send with user_message: no payload, or a text of at
\* most MaxMsgLen characters (spaces around at most one letter: the handlers
\* look at a text only through trim)
Letters(m) == Cardinality({k \in DOMAIN m : m[k] # " "})
Messages == {m \in SeqsUpTo(MaxMsgLen) : Letters(m) <= 1} \cup {Undefined}

\* texts the provider can generate: one word (one chunk, no pause) and six
\* words (three chunks, two pauses)
Texts ==
  { <<"a">>,
    <<"a", " ", "b", " ", "c", " ", "d", " ", "e", " ", "f">> }

\* what one upstream call can come back with.  status = 0: the error carries
\* no HTTP response (error.response is undefined); code = "": no error.code of
\* interest.
ErrorCodes == {"ENOTFOUND", "ECONNRESET", "ECONNABORTED"}
ErrorStatuses == {400, 401, 403, 429, 500}
Responses ==
  {[kind |-> "ok", text |-> t, code |-> "", status |-> 200] : t \in Texts \cup {Undefined}}
  \cup {[kind |-> "empty", text |-> <<>>, code |-> "", status |-> 200]}
  \cup {[kind |-> "error", text |-> <<>>, code |-> c, status |-> 0] : c \in ErrorCodes}
  \cup {[kind |-> "error", text |-> <<>>, code |-> "", status |-> s] : s \in ErrorStatuses}

\* ------------------------------------------------------- string functions
IsString(m) == m # Undefined

RECURSIVE TrimLeft(_)
TrimLeft(s) == IF s # <<>> /\ Head(s) = " " THEN TrimLeft(Tail(s)) ELSE s

RECURSIVE TrimRight(_)
TrimRight(s) ==
  IF s # <<>> /\ s[Len(s)] = " " THEN TrimRight(SubSeq(s, 1, Len(s) - 1)) ELSE s

\* a string with no character other than the space
IsBlank(m) == IsString(m) /\ \A k \in DOMAIN m : m[k] = " "

\* String.prototype.trim
Trim(s) == TrimRight(TrimLeft(s))

\* String.prototype.split(' '): the words between single spaces; an empty
\* text gives one empty word, two consecutive spaces give an empty word.
RECURSIVE SplitFrom(_, _, _)
SplitFrom(s, k, cur) ==
  IF k > Len(s) THEN <<cur>>
  ELSE IF s[k] = " " THEN <<cur>> \o SplitFrom(s, k + 1, <<>>)
  ELSE SplitFrom(s, k + 1, Append(cur, s[k]))

Split(s) == SplitFrom(s, 1, <<>>)

\* ------------------------------------------------------------- Map helpers
MapSet(map, k, v) == [x \in (DOMAIN map) \cup {k} |-> IF x = k THEN v ELSE map[x]]
\* Map.prototype.delete that removes nothing
MapDeleteNoop(map, k) == map

MapDelete(map, k) == [x \in (DOMAIN map) \ {k} |-> map[x]]
MapGetOrEmpty(map, k) == IF k \in DOMAIN map THEN map[k] ELSE <<>>
EmptyMap == [x \in {} |-> <<>>]

\* Array.prototype.splice(0, n): remove the first n elements
SpliceFront(arr, n) == SubSeq(arr, n + 1, Len(arr))

\* ------------------------------------------------------------------- state
VARIABLES
  variant,              \* which server file is running
  apiKey,               \* process.env.<PROVIDER>_API_KEY is set
  conn,                 \* per socket id: "new" (not yet connected), "open", "closed"
  conversationHistory,  \* Map socket id -> array of {role, content}
  req,                  \* the handler invocations: position and locals of each
  appended,             \* per socket id: the turns pushed since its array was created
  received              \* number of user_message events so far

vars == <<variant, apiKey, conn, conversationHistory, req, appended, received>>

Turn(role, content) == [role |-> role, content |-> content]

Chunk(payload) == [type |-> "bot_message_chunk", payload |-> payload]
Done == [type |-> "bot_message_done", payload |-> <<>>]

\* the fixed texts the servers send on the failure paths
ErrText(name) == <<name>>
MsgInvalid == ErrText("Please send a valid message.")
MsgNoKey == ErrText("Server configuration error: API key not found.")
MsgEmpty == ErrText("I received an empty response. Please try again.")
MsgDns == ErrText("I'm having trouble connecting to my AI service.")
MsgBadRequest == ErrText("Request error")
MsgForbidden == ErrText("Access denied. Please check the API configuration.")
MsgAuth == ErrText("Authentication error. Please check the API configuration.")
MsgRateLimit == ErrText("I'm receiving too many requests. Please wait a moment and try again.")
MsgServer == ErrText("The AI service is experiencing issues. Please try again later.")
MsgConnection == ErrText("Connection failed after multiple attempts. Please try again later.")
MsgUnknown == ErrText("An unexpected error occurred. Please try again.")

InFlightPcs == {"await", "backoff", "pause"}
EndedPcs == {"done", "crashed"}

NoResponse == [kind |-> "none", text |-> <<>>, code |-> "", status |-> 0]

\* a handler invocation as user_message starts it.  id numbers the
\* user_message events; calls, responses, last (the response to the
\* current call), waits, pauses, histBefore,
\* touched, blank (the payload was a string without a non-space
\* character), context (the contents sent with the first call, kept while
\* the request may still call again) and sameContext (every later call sent
\* the same contents) and cleared (the history of the session was cleared
\* while the request had a call or a backoff pending) record what the
\* invocation did and saw.
NewReq(id, s, histBefore) ==
  [pc |-> "start", id |-> id, sock |-> s, message |-> <<>>, retryCount |-> 0,
   words |-> <<>>, i |-> 0, sent |-> <<>>, calls |-> 0, responses |-> 0,
   last |-> NoResponse,
   waits |-> <<>>, pauses |-> 0, histBefore |-> histBefore, touched |-> FALSE,
   blank |-> FALSE, context |-> <<>>, sameContext |-> TRUE, cleared |-> FALSE]

\* ------------------------------------------------------ history (Gemini)
\* addToHistory with the splice at the wrong end: the newest turns are dropped
addToHistoryKeepOldest(map, socketId, role, content) ==
  LET m1 == IF socketId \in DOMAIN map THEN map ELSE MapSet(map, socketId, <<>>)
      pushed == Append(m1[socketId], Turn(role, content))
      history == IF Len(pushed) > HistoryCap THEN SubSeq(pushed, 1, HistoryCap) ELSE pushed
  IN MapSet(m1, socketId, history)

\* addToHistory with unshift in place of push: the new turn goes in front
addToHistoryUnshift(map, socketId, role, content) ==
  LET m1 == IF socketId \in DOMAIN map THEN map ELSE MapSet(map, socketId, <<>>)
      pushed == <<Turn(role, content)>> \o m1[socketId]
      history == IF Len(pushed) > HistoryCap
                 THEN SpliceFront(pushed, Len(pushed) - HistoryCap)
                 ELSE pushed
  IN MapSet(m1, socketId, history)

\* addToHistory with an odd cap (one less than HistoryCap)
addToHistoryOddCap(map, socketId, role, content) ==
  LET m1 == IF socketId \in DOMAIN map THEN map ELSE MapSet(map, socketId, <<>>)
      pushed == Append(m1[socketId], Turn(role, content))
      history == IF Len(pushed) > HistoryCap - 1
                 THEN SpliceFront(pushed, Len(pushed) - (HistoryCap - 1))
                 ELSE pushed
  IN MapSet(m1, socketId, history)

addToHistory(map, socketId, role, content) ==
  LET m1 == IF socketId \in DOMAIN map THEN map ELSE MapSet(map, socketId, <<>>)
      pushed == Append(m1[socketId], Turn(role, content))
      history == IF Len(pushed) > HistoryCap
                 THEN SpliceFront(pushed, Len(pushed) - HistoryCap)
                 ELSE pushed
  IN MapSet(m1, socketId, history)

\* the request context: every stored turn with role user or model
getGeminiHistory(map, socketId) ==
  LET history == MapGetOrEmpty(map, socketId)
  IN [n \in 1..Len(history) |->
        [role |-> IF history[n].role = "user" THEN "user" ELSE "model",
         text |-> history[n].content]]

\* ----------------------------------------------------------- history reads
\* Array.prototype.slice(-n): the last n elements
SliceLast(arr, n) == IF Len(arr) <= n THEN arr ELSE SubSeq(arr, Len(arr) - n + 1, Len(arr))

\* socket.on("get_history_summary"): the payload of the history_summary
\* event; the handler changes no state
GetHistorySummary(map, socketId) ==
  LET history == MapGetOrEmpty(map, socketId)
  IN [messageCount |-> Len(history), lastMessages |-> SliceLast(history, 4)]

\* app.get('/history/:socketId'): the JSON body of the reply; the handler
\* changes no state
HttpGetHistory(map, socketId) ==
  LET history == MapGetOrEmpty(map, socketId)
  IN [socketId |-> socketId, messageCount |-> Len(history), history |-> history]

\* ------------------------------------------------------------ retry policy
RECURSIVE Pow2(_)
Pow2(n) == IF n = 0 THEN 1 ELSE 2 * Pow2(n - 1)

Min(a, b) == IF a < b THEN a ELSE b

\* backoffDelay growing linearly instead of doubling
backoffDelayLinear(retryCount) == Min(backoffBase * (retryCount + 1), backoffCap)

backoffDelay(retryCount) == Min(backoffBase * Pow2(retryCount), backoffCap)

\* the catch block with 403 handled like a connection error
GeminiCatchRetry403(code, status, retryCount) ==
  IF code \in {"ENOTFOUND", "EAI_NODATA", "ECONNRESET", "ECONNREFUSED"} \/ status = 403
  THEN IF retryCount < maxRetries THEN [retry |-> TRUE, msg |-> <<>>]
       ELSE [retry |-> FALSE, msg |-> MsgConnection]
  ELSE IF status = 400 THEN [retry |-> FALSE, msg |-> MsgBadRequest]
  ELSE IF status = 429 THEN [retry |-> FALSE, msg |-> MsgRateLimit]
  ELSE IF status >= 500 THEN [retry |-> FALSE, msg |-> MsgServer]
  ELSE [retry |-> FALSE, msg |-> MsgUnknown]

\* the catch block with the retry guard off by one (<= for <)
GeminiCatchOffByOne(code, status, retryCount) ==
  IF code \in {"ENOTFOUND", "EAI_NODATA"}
  THEN IF retryCount <= maxRetries THEN [retry |-> TRUE, msg |-> <<>>]
       ELSE [retry |-> FALSE, msg |-> MsgDns]
  ELSE IF status = 400 THEN [retry |-> FALSE, msg |-> MsgBadRequest]
  ELSE IF status = 403 THEN [retry |-> FALSE, msg |-> MsgForbidden]
  ELSE IF status = 429 THEN [retry |-> FALSE, msg |-> MsgRateLimit]
  ELSE IF status >= 500 THEN [retry |-> FALSE, msg |-> MsgServer]
  ELSE IF code \in {"ECONNRESET", "ECONNREFUSED"}
  THEN IF retryCount <= maxRetries THEN [retry |-> TRUE, msg |-> <<>>]
       ELSE [retry |-> FALSE, msg |-> MsgConnection]
  ELSE [retry |-> FALSE, msg |-> MsgUnknown]

\* the catch block of makeGeminiRequest: what is done with an error that
\* carries error.code = code and error.response.status = status (0: none)
GeminiCatch(code, status, retryCount) ==
  IF code \in {"ENOTFOUND", "EAI_NODATA"}
  THEN IF retryCount < maxRetries THEN [retry |-> TRUE, msg |-> <<>>]
       ELSE [retry |-> FALSE, msg |-> MsgDns]
  ELSE IF status = 400 THEN [retry |-> FALSE, msg |-> MsgBadRequest]
  ELSE IF status = 403 THEN [retry |-> FALSE, msg |-> MsgForbidden]
  ELSE IF status = 429 THEN [retry |-> FALSE, msg |-> MsgRateLimit]
  ELSE IF status >= 500 THEN [retry |-> FALSE, msg |-> MsgServer]
  ELSE IF code \in {"ECONNRESET", "ECONNREFUSED"}
  THEN IF retryCount < maxRetries THEN [retry |-> TRUE, msg |-> <<>>]
       ELSE [retry |-> FALSE, msg |-> MsgConnection]
  ELSE [retry |-> FALSE, msg |-> MsgUnknown]

\* the catch block of makeOpenRouterRequest
OpenRouterCatch(code, status, retryCount) ==
  IF code \in {"ENOTFOUND", "EAI_NODATA"}
  THEN IF retryCount < maxRetries THEN [retry |-> TRUE, msg |-> <<>>]
       ELSE [retry |-> FALSE, msg |-> MsgDns]
  ELSE IF status = 401 THEN [retry |-> FALSE, msg |-> MsgAuth]
  ELSE IF status = 429 THEN [retry |-> FALSE, msg |-> MsgRateLimit]
  ELSE IF status >= 500 THEN [retry |-> FALSE, msg |-> MsgServer]
  ELSE IF code \in {"ECONNRESET", "ECONNREFUSED"}
  THEN IF retryCount < maxRetries THEN [retry |-> TRUE, msg |-> <<>>]
       ELSE [retry |-> FALSE, msg |-> MsgConnection]
  ELSE [retry |-> FALSE, msg |-> MsgUnknown]

\* --------------------------------------------------- simulated streaming
\* the loop index (0-based) at which the chunk loop next emits, entered at i
RECURSIVE FlushIndex(_, _)
FlushIndex(words, i) ==
  IF i % wordsPerFlush = 0 \/ i = Len(words) - 1 THEN i
  ELSE FlushIndex(words, i + 1)

\* currentChunk accumulated without the separator
RECURSIVE AccumulateNoSeparator(_, _, _)
AccumulateNoSeparator(words, from, to) ==
  IF from > to THEN <<>>
  ELSE words[from + 1] \o AccumulateNoSeparator(words, from + 1, to)

\* currentChunk accumulated over loop indices from..to
RECURSIVE Accumulate(_, _, _)
Accumulate(words, from, to) ==
  IF from > to THEN <<>>
  ELSE (IF from > 0 THEN <<" ">> ELSE <<>>) \o words[from + 1]
       \o Accumulate(words, from + 1, to)

\* the chunk loop entered at index i, run to its next await or to its end
StreamFrom(r, i) ==
  LET j == FlushIndex(r.words, i)
      chunk == Accumulate(r.words, i, j)
  IN IF j < Len(r.words) - 1
     THEN [r EXCEPT !.pc = "pause", !.i = j, !.pauses = @ + 1,
                    !.sent = Append(@, Chunk(chunk))]
     ELSE [r EXCEPT !.pc = "done", !.i = j,
                    !.sent = @ \o <<Chunk(chunk), Done>>]

\* ------------------------------------------------------------ bookkeeping
InFlight == {r \in req : r.pc \in InFlightPcs}

\* an invocation that has returned (or thrown) is gone at the next step
Retire(rq) == {r \in rq : r.pc \notin EndedPcs}

\* note, in every in-flight request of session s other than self, that the
\* stored history of s was written by someone else
Touch(rq, s, self) ==
  {IF r.sock = s /\ r.id # self
   THEN [r EXCEPT !.touched = TRUE, !.histBefore = <<>>] ELSE r : r \in Retire(rq)}

\* note, in every in-flight request of session s, that the stored history of
\* s was deleted, and in those not yet answered that it was deleted before
\* their answer
TouchCleared(rq, s) ==
  {IF r.sock = s /\ r.pc \in {"await", "backoff"} THEN [r EXCEPT !.cleared = TRUE] ELSE r
     : r \in Touch(rq, s, 0)}

\* one invocation moves from r to r2
Step(rq, r, r2) == (Retire(rq) \ {r}) \cup {r2}

\* socket.emit(chunk); socket.emit(done) at the end of a handler
Fail(r, msg) == [r EXCEPT !.pc = "done", !.context = <<>>,
                          !.sent = @ \o <<Chunk(msg), Done>>]

\* ------------------------------------------------------------------ start
\* The servers start with an empty Map and no connection.  To have the cap of
\* the history within reach of MaxMsgs messages, a behaviour may also start
\* after socket s1 has connected and completed a number of exchanges, its
\* array built by addToHistory itself.
PriorExchanges == {0, 4}

PriorText(n) == [k \in 1..n |-> "a"]

RECURSIVE PriorMap(_)
PriorMap(n) ==
  IF n = 0 THEN MapSet(EmptyMap, "s1", <<>>)
  ELSE addToHistory(addToHistory(PriorMap(n - 1), "s1", "user", <<"a">>),
                    "s1", "assistant", PriorText(n))

Init ==
  /\ variant \in Variants
  /\ apiKey \in BOOLEAN
  /\ req = {}
  /\ received = 0
  /\ \E n \in PriorExchanges :
       IF n = 0 \/ variant # "gemini"
       THEN /\ conn = [s \in Sockets |-> "new"]
            /\ conversationHistory = EmptyMap
            /\ appended = [s \in Sockets |-> <<>>]
       ELSE /\ conn = [s \in Sockets |-> IF s = "s1" THEN "open" ELSE "new"]
            /\ conversationHistory = PriorMap(n)
            /\ appended = [s \in Sockets |-> IF s = "s1" THEN PriorMap(n)["s1"] ELSE <<>>]

\* -------------------------------------------------------- Gemini server
\* io.on("connection"): the Map entry of the new socket id is set to []
Connect(s) ==
  /\ variant = "gemini"
  /\ conn[s] = "new"
  /\ conn' = [conn EXCEPT ![s] = "open"]
  /\ conversationHistory' = MapSet(conversationHistory, s, <<>>)
  /\ appended' = [appended EXCEPT ![s] = <<>>]
  /\ req' = Touch(req, s, 0)
  /\ UNCHANGED <<variant, apiKey, received>>

\* socket.on("disconnect"): logs only
Disconnect(s) ==
  /\ variant = "gemini"
  /\ conn[s] = "open"
  /\ conn' = [conn EXCEPT ![s] = "closed"]
  /\ req' = Retire(req)
  /\ UNCHANGED <<variant, apiKey, conversationHistory, appended, received>>

\* makeGeminiRequest up to its await of apiClient.post: the contents sent
\* are the stored history of the socket id, read now, and the message
GeminiCall(r, map) ==
  LET contents == getGeminiHistory(map, r.sock) \o <<[role |-> "user", text |-> r.message]>>
      same == r.sameContext /\ (r.calls = 0 \/ contents = r.context)
  IN [r EXCEPT !.pc = "await", !.calls = @ + 1, !.last = NoResponse,
               !.context = IF r.calls = 0 THEN contents ELSE IF same THEN @ ELSE <<>>,
               !.sameContext = same]

\* socket.on("user_message") up to its first await or its return
UserMessage(s, message) ==
  /\ variant = "gemini"
  /\ conn[s] = "open"
  /\ received < MaxMsgs
  /\ Cardinality(InFlight) < MaxInFlight
  /\ received' = received + 1
  /\ LET r0 == NewReq(received + 1, s, MapGetOrEmpty(conversationHistory, s))
         r1 == [r0 EXCEPT !.blank = IsBlank(message)]
     IN req' = Retire(req) \cup {
          IF ~IsString(message)
          THEN [r0 EXCEPT !.pc = "crashed"]          \* message.substring throws
          ELSE IF Len(message) = 0 \/ Len(Trim(message)) = 0
          THEN Fail(r1, MsgInvalid)
          ELSE IF ~apiKey
          THEN Fail(r1, MsgNoKey)
          ELSE GeminiCall([r1 EXCEPT !.message = Trim(message)], conversationHistory)}
  /\ UNCHANGED <<variant, apiKey, conn, conversationHistory, appended>>

\* the continuation of makeGeminiRequest when apiClient.post settles with
\* resp, up to its next await or its return
GeminiResponse(r0, resp) ==
  /\ variant = "gemini"
  /\ r0 \in req
  /\ r0.pc = "await"
  /\ LET r == [r0 EXCEPT !.responses = @ + 1, !.last = resp]
         s == r.sock
         userTurn == Turn("user", r.message)
         botTurn == Turn("assistant", resp.text)
         stored == addToHistory(addToHistory(conversationHistory, s, "user", r.message),
                                s, "assistant", resp.text)
         thrown == GeminiCatch("", 0, r.retryCount)   \* the TypeError of text.split
         caught == GeminiCatch(resp.code, resp.status, r.retryCount)
     IN CASE resp.kind = "ok" ->
               /\ conversationHistory' = stored
               /\ appended' = [appended EXCEPT ![s] =
                                 IF s \in DOMAIN conversationHistory
                                 THEN @ \o <<userTurn, botTurn>>
                                 ELSE <<userTurn, botTurn>>]
               /\ req' = (Touch(req, s, r.id) \ {r0}) \cup {
                            IF resp.text = Undefined
                            THEN Fail(r, thrown.msg)
                            ELSE StreamFrom([r EXCEPT !.words = Split(resp.text),
                                                      !.context = <<>>], 0)}
          [] resp.kind = "empty" ->
               /\ req' = Step(req, r0, Fail(r, MsgEmpty))
               /\ UNCHANGED <<conversationHistory, appended>>
          [] resp.kind = "error" ->
               /\ req' = Step(req, r0,
                            IF caught.retry
                            THEN [r EXCEPT !.pc = "backoff",
                                           !.waits = Append(@, backoffDelay(r.retryCount))]
                            ELSE Fail(r, caught.msg))
               /\ UNCHANGED <<conversationHistory, appended>>
  /\ UNCHANGED <<variant, apiKey, conn, received>>

\* the backoff timer fires: makeGeminiRequest(message, socket, socketId,
\* retryCount + 1) up to its await
GeminiRetry(r) ==
  /\ variant = "gemini"
  /\ r \in req
  /\ r.pc = "backoff"
  /\ req' = Step(req, r, GeminiCall([r EXCEPT !.retryCount = @ + 1], conversationHistory))
  /\ UNCHANGED <<variant, apiKey, conn, conversationHistory, appended, received>>

\* the 50 ms timer fires: the chunk loop goes on with the next index
ChunkResume(r) ==
  /\ variant = "gemini"
  /\ r \in req
  /\ r.pc = "pause"
  /\ req' = Step(req, r, StreamFrom(r, r.i + 1))
  /\ UNCHANGED <<variant, apiKey, conn, conversationHistory, appended, received>>

\* clear_history that empties the whole Map (conversationHistory.clear())
ClearHistoryAll(s) ==
  /\ variant = "gemini"
  /\ conn[s] = "open"
  /\ conversationHistory' = EmptyMap
  /\ appended' = [t \in Sockets |-> <<>>]
  /\ req' = Touch(req, s, 0)
  /\ UNCHANGED <<variant, apiKey, conn, received>>

\* socket.on("clear_history")
ClearHistory(s) ==
  /\ variant = "gemini"
  /\ conn[s] = "open"
  /\ conversationHistory' = MapDelete(conversationHistory, s)
  /\ appended' = [appended EXCEPT ![s] = <<>>]
  /\ req' = TouchCleared(req, s)
  /\ UNCHANGED <<variant, apiKey, conn, received>>

\* app.post('/clear-history/:socketId'), from any HTTP client
HttpClearHistory(socketId) ==
  /\ variant = "gemini"
  /\ conversationHistory' = MapDelete(conversationHistory, socketId)
  /\ appended' = [appended EXCEPT ![socketId] = <<>>]
  /\ req' = TouchCleared(req, socketId)
  /\ UNCHANGED <<variant, apiKey, conn, received>>

\* the sweep that also deletes the entries of disconnected sockets
CleanupDisconnected ==
  /\ variant = "gemini"
  /\ conversationHistory' =
       [id \in {x \in DOMAIN conversationHistory :
                  Len(conversationHistory[x]) # 0 /\ conn[x] # "closed"}
          |-> conversationHistory[id]]
  /\ req' = Retire(req)
  /\ UNCHANGED <<variant, apiKey, conn, appended, received>>

\* the hourly setInterval callback: entries with an empty array are deleted
Cleanup ==
  /\ variant = "gemini"
  /\ conversationHistory' =
       [id \in {x \in DOMAIN conversationHistory : Len(conversationHistory[x]) # 0}
          |-> conversationHistory[id]]
  /\ req' = Retire(req)
  /\ UNCHANGED <<variant, apiKey, conn, appended, received>>

\* ---------------------------------------------------- OpenRouter server
\* io.on("connection"): logs only
ORConnect(s) ==
  /\ variant = "openrouter"
  /\ conn[s] = "new"
  /\ conn' = [conn EXCEPT ![s] = "open"]
  /\ req' = Retire(req)
  /\ UNCHANGED <<variant, apiKey, conversationHistory, appended, received>>

\* socket.on("disconnect"): logs only
ORDisconnect(s) ==
  /\ variant = "openrouter"
  /\ conn[s] = "open"
  /\ conn' = [conn EXCEPT ![s] = "closed"]
  /\ req' = Retire(req)
  /\ UNCHANGED <<variant, apiKey, conversationHistory, appended, received>>

\* makeOpenRouterRequest up to its await of apiClient.post
OpenRouterCall(r) == [r EXCEPT !.pc = "await", !.calls = @ + 1, !.last = NoResponse]

\* socket.on("user_message") up to its first await or its return
ORUserMessage(s, message) ==
  /\ variant = "openrouter"
  /\ conn[s] = "open"
  /\ received < MaxMsgs
  /\ Cardinality(InFlight) < MaxInFlight
  /\ received' = received + 1
  /\ LET r0 == NewReq(received + 1, s, <<>>)
         r1 == [r0 EXCEPT !.blank = IsBlank(message)]
     IN req' = Retire(req) \cup {
          IF ~IsString(message)
          THEN [r0 EXCEPT !.pc = "crashed"]          \* message.substring throws
          ELSE IF Len(message) = 0 \/ Len(Trim(message)) = 0
          THEN Fail(r1, MsgInvalid)
          ELSE IF ~apiKey
          THEN Fail(r1, MsgNoKey)
          ELSE OpenRouterCall([r1 EXCEPT !.message = Trim(message)])}
  /\ UNCHANGED <<variant, apiKey, conn, conversationHistory, appended>>

\* the continuation of makeOpenRouterRequest when apiClient.post settles
ORResponse(r0, resp) ==
  /\ variant = "openrouter"
  /\ r0 \in req
  /\ r0.pc = "await"
  /\ LET r == [r0 EXCEPT !.responses = @ + 1, !.last = resp]
         caught == OpenRouterCatch(resp.code, resp.status, r.retryCount)
     IN req' = Step(req, r0,
          CASE resp.kind = "ok" ->
                 [r EXCEPT !.pc = "done", !.sent = @ \o <<Chunk(resp.text), Done>>]
            [] resp.kind = "empty" -> Fail(r, MsgEmpty)
            [] resp.kind = "error" ->
                 IF caught.retry
                 THEN [r EXCEPT !.pc = "backoff",
                                !.waits = Append(@, backoffDelay(r.retryCount))]
                 ELSE Fail(r, caught.msg))
  /\ UNCHANGED <<variant, apiKey, conn, conversationHistory, appended, received>>

\* the backoff timer fires: makeOpenRouterRequest(message, socket,
\* retryCount + 1) up to its await
ORRetry(r) ==
  /\ variant = "openrouter"
  /\ r \in req
  /\ r.pc = "backoff"
  /\ req' = Step(req, r, OpenRouterCall([r EXCEPT !.retryCount = @ + 1]))
  /\ UNCHANGED <<variant, apiKey, conn, conversationHistory, appended, received>>

\* ---------------------------------------------------------- specification
Next ==
  \/ \E s \in Sockets : Connect(s)
  \/ \E s \in Sockets : Disconnect(s)
  \/ \E s \in Sockets, m \in Messages : UserMessage(s, m)
  \/ \E r \in req, resp \in Responses : GeminiResponse(r, resp)
  \/ \E r \in req : GeminiRetry(r)
  \/ \E r \in req : ChunkResume(r)
  \/ \E s \in Sockets : ClearHistory(s)
  \/ \E s \in Sockets : HttpClearHistory(s)
  \/ Cleanup
  \/ \E s \in Sockets : ORConnect(s)
  \/ \E s \in Sockets : ORDisconnect(s)
  \/ \E s \in Sockets, m \in Messages : ORUserMessage(s, m)
  \/ \E r \in req, resp \in Responses : ORResponse(r, resp)
  \/ \E r \in req : ORRetry(r)

Spec == Init /\ [][Next]_vars

\* every upstream call settles and every timer fires
Settle(n) == \E r \in req, resp \in Responses :
               r.id = n /\ (GeminiResponse(r, resp) \/ ORResponse(r, resp))
TimerFires(n) == \E r \in req :
               r.id = n /\ (GeminiRetry(r) \/ ChunkResume(r) \/ ORRetry(r))

FairSpec == Spec /\ \A n \in 1..MaxMsgs : WF_vars(Settle(n)) /\ WF_vars(TimerFires(n))

\* ------------------------------------------------- the chunker on any text
\* The Gemini server answering one user_message, the provider generating any
\* text of up to MaxTextLen characters: spaces and letters in every
\* arrangement, the empty text included.
ChunkTexts == SeqsUpTo(MaxTextLen)

TextResponse(t) == [kind |-> "ok", text |-> t, code |-> "", status |-> 200]

ChunkerInit ==
  /\ variant = "gemini"
  /\ apiKey = TRUE
  /\ conn = [s \in Sockets |-> "new"]
  /\ conversationHistory = EmptyMap
  /\ appended = [s \in Sockets |-> <<>>]
  /\ req = {}
  /\ received = 0

ChunkerNext ==
  \/ Connect("s1")
  \/ received = 0 /\ UserMessage("s1", <<"a">>)
  \/ \E r \in req, t \in ChunkTexts : GeminiResponse(r, TextResponse(t))
  \/ \E r \in req : ChunkResume(r)

ChunkerSpec == ChunkerInit /\ [][ChunkerNext]_vars

\* ------------------------------------------------- Hugging Face server
\* The third server (the first file of part_000): no history, no validation
\* of the payload, a model check and then a loop of generation attempts.
hfMaxRetries == 5
hfRetryWait == 2000

MsgModelLoading == ErrText("Model is currently loading. Please try again.")
MsgNoResponse == ErrText("No response from model.")
MsgExhausted == ErrText("Error: Unable to fetch response after multiple attempts.")
MsgHfError == ErrText("Error: Unable to fetch response from Hugging Face API.")

\* what axios.get of the model check settles with
HFCheckResults == {"ok", "loading", "throws"}

\* what axios.post settles with: the returns of the other servers and a
\* body whose generated_text is the empty string; of the errors, one that
\* the other servers retry (ECONNRESET), one they give up on (401), and the
\* 5xx the loop was written for
HFResponses ==
  {resp \in Responses :
     resp.kind = "error" => resp.code = "ECONNRESET" \/ resp.status \in {401, 500}}
  \cup {TextResponse(<<>>)}

\* data?.generated_text taken as a condition
HFTruthy(resp) == resp.kind = "ok" /\ IsString(resp.text) /\ resp.text # <<>>

\* the loop condition i < maxRetries
HFLoopContinues(i) == i < hfMaxRetries

\* the test that never holds inside the loop
HFLastAttemptOffByOne(i) == i = hfMaxRetries

\* the test i === maxRetries - 1 of the catch block
HFLastAttempt(i) == i = hfMaxRetries - 1

HFPending == {r \in req : r.pc \notin EndedPcs}

\* the loop body up to its await of axios.post
HFAttempt(r) == [r EXCEPT !.pc = "await", !.calls = @ + 1, !.last = NoResponse]

HFInit ==
  /\ variant = "huggingface"
  /\ apiKey = TRUE                 \* the token is sent, never tested
  /\ conn = [s \in Sockets |-> "new"]
  /\ conversationHistory = EmptyMap
  /\ appended = [s \in Sockets |-> <<>>]
  /\ req = {}
  /\ received = 0

\* io.on("connection"): logs only
HFConnect(s) ==
  /\ conn[s] = "new"
  /\ conn' = [conn EXCEPT ![s] = "open"]
  /\ req' = Retire(req)
  /\ UNCHANGED <<variant, apiKey, conversationHistory, appended, received>>

\* socket.on("disconnect"): logs only
HFDisconnect(s) ==
  /\ conn[s] = "open"
  /\ conn' = [conn EXCEPT ![s] = "closed"]
  /\ req' = Retire(req)
  /\ UNCHANGED <<variant, apiKey, conversationHistory, appended, received>>

\* socket.on("user_message") up to its await of the model check; the
\* payload is not looked at, only sent on as the inputs of each attempt
HFUserMessage(s, message) ==
  /\ conn[s] = "open"
  /\ received < MaxMsgs
  /\ Cardinality(HFPending) < MaxInFlight
  /\ received' = received + 1
  /\ req' = Retire(req) \cup
            {[NewReq(received + 1, s, <<>>) EXCEPT !.pc = "check"]}
  /\ UNCHANGED <<variant, apiKey, conn, conversationHistory, appended>>

\* the model check settles: it throws (outer catch), reports data.error, or
\* lets the loop start with i = 0
HFModelCheck(r, result) ==
  /\ r \in req
  /\ r.pc = "check"
  /\ req' = Step(req, r,
       CASE result = "throws" -> Fail(r, MsgHfError)
         [] result = "loading" -> Fail(r, MsgModelLoading)
         [] result = "ok" ->
              IF HFLoopContinues(0) THEN HFAttempt(r)
              ELSE [r EXCEPT !.pc = "done", !.sent = Append(@, Done)])
  /\ UNCHANGED <<variant, apiKey, conn, conversationHistory, appended, received>>

\* axios.post settles: a return emits one chunk, breaks and emits the done;
\* an error emits the chunk of the last attempt, if it is the last, and
\* starts the wait
HFResponse(r0, resp) ==
  /\ r0 \in req
  /\ r0.pc = "await"
  /\ LET r == [r0 EXCEPT !.responses = @ + 1, !.last = resp]
     IN req' = Step(req, r0,
          IF resp.kind = "error"
          THEN [r EXCEPT !.pc = "backoff",
                         !.waits = Append(@, hfRetryWait),
                         !.sent = IF HFLastAttempt(r.retryCount)
                                  THEN Append(@, Chunk(MsgExhausted)) ELSE @]
          ELSE [r EXCEPT !.pc = "done",
                         !.sent = @ \o <<Chunk(IF HFTruthy(resp) THEN resp.text
                                               ELSE MsgNoResponse), Done>>])
  /\ UNCHANGED <<variant, apiKey, conn, conversationHistory, appended, received>>

\* the 2000 ms timer fires: i++, then the next attempt or the end of the
\* loop and the done
HFWaitOver(r) ==
  /\ r \in req
  /\ r.pc = "backoff"
  /\ req' = Step(req, r,
       IF HFLoopContinues(r.retryCount + 1)
       THEN HFAttempt([r EXCEPT !.retryCount = @ + 1])
       ELSE [r EXCEPT !.pc = "done", !.retryCount = @ + 1, !.sent = Append(@, Done)])
  /\ UNCHANGED <<variant, apiKey, conn, conversationHistory, appended, received>>

HFNext ==
  \/ \E s \in Sockets : HFConnect(s)
  \/ \E s \in Sockets : HFDisconnect(s)
  \/ \E s \in Sockets, m \in Messages : HFUserMessage(s, m)
  \/ \E r \in req, result \in HFCheckResults : HFModelCheck(r, result)
  \/ \E r \in req, resp \in HFResponses : HFResponse(r, resp)
  \/ \E r \in req : HFWaitOver(r)

HFSpec == HFInit /\ [][HFNext]_vars

TypeOK ==
  /\ variant \in Variants
  /\ apiKey \in BOOLEAN
  /\ \A s \in Sockets : conn[s] \in {"new", "open", "closed"}
  /\ DOMAIN conversationHistory \subseteq Sockets
  /\ \A r \in req : r.pc \in InFlightPcs \cup EndedPcs
  /\ Cardinality(InFlight) <= MaxInFlight
  /\ received \in 0..MaxMsgs

\* ------------------------------------------------------------------ claims
CountType(events, t) == Cardinality({n \in DOMAIN events : events[n].type = t})
Chunks(r) == CountType(r.sent, "bot_message_chunk")
Dones(r) == CountType(r.sent, "bot_message_done")

ErrorTexts == {MsgInvalid, MsgNoKey, MsgEmpty, MsgDns, MsgBadRequest, MsgForbidden,
               MsgAuth, MsgRateLimit, MsgServer, MsgConnection, MsgUnknown}

\* the request ended with an error text instead of the generated text
Failed(r) == r.pc = "done" /\ \E n \in DOMAIN r.sent : r.sent[n].payload \in ErrorTexts

\* auth failure, bad request, or a 2xx response without the expected fields
Fatal(resp) ==
  \/ resp.kind = "error" /\ resp.status \in {400, 401, 403}
  \/ resp.kind = "empty"
  \/ resp.kind = "ok" /\ resp.text = Undefined

Retryable(resp) ==
  resp.kind = "error" /\ resp.code \in {"ENOTFOUND", "EAI_NODATA", "ECONNRESET", "ECONNREFUSED"}

\* C1: every user_message whose handling has ended got exactly one
\* bot_message_done, as the last event sent for it, and a request still in
\* flight has sent none yet (so no chunk follows a done).
C1_ExactlyOneDone ==
  \A r \in req :
    /\ r.pc \in EndedPcs => Dones(r) = 1 /\ r.sent[Len(r.sent)] = Done
    /\ r.pc \in InFlightPcs => Dones(r) = 0

\* C2: under fairness of upstream calls and timers, every user_message
\* received is eventually followed by its bot_message_done.
C2_EventuallyDone ==
  \A n \in 1..MaxMsgs :
    (\E r \in req : r.id = n) ~> (\E r \in req : r.id = n /\ r.pc = "done")

LastN(seq, n) == IF Len(seq) <= n THEN seq ELSE SubSeq(seq, Len(seq) - n + 1, Len(seq))

\* C3: every stored history has at most 10 turns and is exactly the 10 most
\* recently appended turns (all of them when fewer were appended), in the
\* order they were appended.
C3_HistoryCapFifo ==
  \A s \in DOMAIN conversationHistory :
    /\ Len(conversationHistory[s]) <= 10
    /\ conversationHistory[s] = LastN(appended[s], 10)

\* more than 10 turns were pushed and the oldest were dropped
C3_Witness ==
  \E s \in DOMAIN conversationHistory :
    /\ Len(appended[s]) > 10
    /\ Len(conversationHistory[s]) = 10
    /\ conversationHistory[s][2] # appended[s][2]

\* C4: no two requests of the same session are in flight at once.
C4_Serialized ==
  \A r1 \in InFlight, r2 \in InFlight : r1.sock = r2.sock => r1 = r2

\* C5: a request that ends on a 5xx response has made the maximum number of
\* attempts (maxRetries + 1), each retry after a backoff wait.
C5_ServerErrorRetried ==
  \A r \in req :
    r.pc = "done" /\ r.last.kind = "error" /\ r.last.status >= 500
      => r.calls = maxRetries + 1 /\ Len(r.waits) = maxRetries

\* C6: a fatal response (400, 401, 403, or 2xx without the expected fields)
\* ends the request at once: no backoff wait and no further attempt follow
\* it, exactly one chunk and then the done is sent, and when it answers the
\* first attempt the request made exactly one upstream call.
C6_FatalNoRetry ==
  \A r \in req :
    Fatal(r.last) =>
      /\ r.pc = "done"
      /\ r.calls = r.responses
      /\ Len(r.waits) = r.calls - 1
      /\ Chunks(r) = 1
      /\ Len(r.sent) = 2 /\ r.sent[2] = Done
      /\ (r.retryCount = 0 => r.calls = 1 /\ r.waits = <<>>)

\* a 403 answered the first call and the request is done
C6_Witness ==
  \E r \in req : Fatal(r.last) /\ r.last.status = 403 /\ r.pc = "done" /\ r.calls = 1

\* C7: a 429 response is retried after the backoff delay while attempts
\* remain; the rate-limit hint and the done come only when they are exhausted.
C7_RateLimitRetried ==
  \A r \in req :
    r.last.kind = "error" /\ r.last.status = 429 =>
      IF r.retryCount < maxRetries
      THEN r.pc = "backoff" /\ r.sent = <<>>
      ELSE r.pc = "done" /\ r.sent = <<Chunk(MsgRateLimit), Done>>

\* C8: the n-th wait of a request (before attempt n + 1) is
\* min(1000 * 2^(n-1), 10000) ms; the waits never decrease and never exceed
\* the cap; there is one wait per retried failure: none before the first
\* attempt and none after the final failed attempt.
C8_BackoffSchedule ==
  \A r \in req :
    /\ \A n \in DOMAIN r.waits :
         /\ r.waits[n] = (IF 1000 * (2 ^ (n - 1)) < 10000 THEN 1000 * (2 ^ (n - 1)) ELSE 10000)
         /\ r.waits[n] <= 10000
         /\ n > 1 => r.waits[n - 1] <= r.waits[n]
    /\ r.calls = 0 => r.waits = <<>>
    /\ r.calls > 0 => Len(r.waits) = (IF r.pc = "backoff" THEN r.calls ELSE r.calls - 1)

\* a request has failed its final attempt after three waits
C8_Witness ==
  \E r \in req : r.pc = "done" /\ Retryable(r.last) /\ r.waits = <<1000, 2000, 4000>>

\* the bounds of one retry sequence and where it stops
C9_Bounded ==
  \A r \in req :
    /\ r.retryCount <= maxRetries
    /\ r.calls <= maxRetries + 1
    /\ r.calls > 0 => r.calls = r.retryCount + 1
    /\ r.last.kind = "ok" => r.pc \in {"pause", "done"} /\ r.calls = r.responses
    /\ Fatal(r.last) => r.pc = "done" /\ r.calls = r.responses
    /\ Retryable(r.last) /\ r.retryCount = maxRetries => Failed(r)

\* what is left of a request: retry phase first, then the words to stream
Rank(r) ==
  CASE r.pc = "await" -> <<2 * (maxRetries - r.retryCount) + 2, 0>>
    [] r.pc = "backoff" -> <<2 * (maxRetries - r.retryCount) + 1, 0>>
    [] r.pc = "pause" -> <<0, Len(r.words) - r.i>>
    [] OTHER -> <<0, 0>>

RankLess(a, b) == a[1] < b[1] \/ (a[1] = b[1] /\ a[2] < b[2])

\* C9: retryCount never exceeds maxRetries and at most maxRetries + 1 calls
\* are made; a success and a fatal response end the retry sequence where they
\* occur, a retryable failure of the last attempt ends it with the error
\* text; and every step of a request brings it nearer to its end (its rank,
\* attempts left then words left, strictly decreases).
C9_RetryTerminates ==
  /\ []C9_Bounded
  /\ [][\A r \in req : \A r2 \in req' :
          r.id = r2.id /\ <<r.pc, r.retryCount, r.i>> # <<r2.pc, r2.retryCount, r2.i>>
            => RankLess(Rank(r2), Rank(r))]_vars

\* the fourth call of a request has failed with a retryable error
C9_Witness ==
  \E r \in req : Failed(r) /\ Retryable(r.last) /\ r.calls = maxRetries + 1

\* C10: when a request has ended in failure and nobody else wrote the
\* session's history meanwhile, the history is what it was when the
\* user_message arrived.
C10_FailureKeepsHistory ==
  \A r \in req :
    Failed(r) /\ ~r.touched
      => MapGetOrEmpty(conversationHistory, r.sock) = r.histBefore

\* the response to the request's current call is a 200 with a generated text
Succeeded(r) == r.last.kind = "ok" /\ IsString(r.last.text)

\* C11: in the server that keeps histories, the step in which a request's
\* call is answered with a generated text appends exactly two turns to the session's history, {user, trimmed
\* message} and then {assistant, text}, adjacent and last (the cap then
\* applied); the first chunk of the request is sent in that step and none
\* before it, so no chunk is ever out while the turns are not stored; from an
\* empty history the history is exactly the two turns; and the later steps
\* of the request (its chunk pauses) append nothing.
C11_SuccessAppendsTwoTurns ==
  [][\A r \in req : \A r2 \in req' :
       variant = "gemini" /\ r.id = r2.id =>
         /\ (r.pc = "await" /\ Succeeded(r2)) =>
              LET before == MapGetOrEmpty(conversationHistory, r.sock)
                  after == MapGetOrEmpty(conversationHistory', r.sock)
                  two == <<Turn("user", r.message), Turn("assistant", r2.last.text)>>
              IN /\ after = LastN(before \o two, HistoryCap)
                 /\ (before = <<>> => after = two)
                 /\ r.message # <<>> /\ Head(r.message) # " "
                                     /\ r.message[Len(r.message)] # " "
                 /\ r.sent = <<>> /\ Chunks(r2) = 1
         /\ (r.pc = "pause" /\ (r2.pc # "pause" \/ r2.i # r.i)) =>
              conversationHistory' = conversationHistory]_vars

\* a request on a session with an empty history has succeeded and the
\* history is its two turns
C11_Witness ==
  \E r \in req :
    /\ variant = "gemini"
    /\ Succeeded(r) /\ ~r.touched /\ r.histBefore = <<>> /\ Chunks(r) >= 1
    /\ MapGetOrEmpty(conversationHistory, r.sock)
         = <<Turn("user", r.message), Turn("assistant", r.last.text)>>

\* C12: a user_message with an empty or whitespace-only text, and any
\* user_message received while the API key is not set, makes no upstream
\* call and is answered with exactly one error chunk and then the done.
C12_RejectedBeforeCall ==
  \A r \in req :
    r.blank \/ ~apiKey =>
      /\ r.calls = 0
      /\ r.pc = "done"
      /\ r.sent = <<Chunk(IF r.blank THEN MsgInvalid ELSE MsgNoKey), Done>>

\* the same for the payloads that are strings
C12_StringsRejectedBeforeCall ==
  \A r \in req :
    (r.blank \/ ~apiKey) /\ r.pc # "crashed" =>
      /\ r.calls = 0
      /\ r.pc = "done"
      /\ r.sent = <<Chunk(IF r.blank THEN MsgInvalid ELSE MsgNoKey), Done>>

\* C13: every upstream call of a request sends the contents its first call
\* sent (the history as it was when the request was accepted, and the
\* message), whatever was cleared or appended while the request was in flight.
C13_SnapshotContext ==
  \A r \in req : r.sameContext

\* C14: in every state, with or without a request in flight, right after a
\* clear_history of a session both reads of it (get_history_summary and GET
\* /history) report 0 turns and an empty sequence, and the reads and the
\* entries of every other session are what they were; and in every state a
\* read of an id without an entry (unknown or cleared) is the empty reply.
C14_ClearReadsEmpty ==
  /\ [](\A id \in Sockets \ DOMAIN conversationHistory :
          /\ GetHistorySummary(conversationHistory, id)
               = [messageCount |-> 0, lastMessages |-> <<>>]
          /\ HttpGetHistory(conversationHistory, id)
               = [socketId |-> id, messageCount |-> 0, history |-> <<>>])
  /\ [][\A s \in Sockets :
          ClearHistory(s) =>
            /\ GetHistorySummary(conversationHistory', s)
                 = [messageCount |-> 0, lastMessages |-> <<>>]
            /\ HttpGetHistory(conversationHistory', s)
                 = [socketId |-> s, messageCount |-> 0, history |-> <<>>]
            /\ \A t \in Sockets \ {s} :
                 /\ (t \in DOMAIN conversationHistory') = (t \in DOMAIN conversationHistory)
                 /\ HttpGetHistory(conversationHistory', t)
                      = HttpGetHistory(conversationHistory, t)
                 /\ GetHistorySummary(conversationHistory', t)
                      = GetHistorySummary(conversationHistory, t)]_vars

\* the history of a session was cleared while a request of it was in flight:
\* its entry is gone and its reads are empty, and another session still holds
\* its turns
C14_Witness ==
  \E r \in InFlight :
    /\ r.touched /\ r.sock \notin DOMAIN conversationHistory
    /\ r.histBefore = <<>> /\ appended[r.sock] = <<>>
    /\ GetHistorySummary(conversationHistory, r.sock).messageCount = 0
    /\ \E t \in DOMAIN conversationHistory :
         HttpGetHistory(conversationHistory, t).messageCount > 0

\* C15: the stored turns of a session change or disappear only in a step of
\* that session's own flow: a request of the session being answered, or a
\* clear_history sent over the session's own connection.
C15_OwnerOnlyMutation ==
  [][\A s \in Sockets :
       MapGetOrEmpty(conversationHistory', s) # MapGetOrEmpty(conversationHistory, s)
         => \/ ClearHistory(s)
            \/ \E r \in req, resp \in Responses : r.sock = s /\ GeminiResponse(r, resp)]_vars

\* C16: once a connection has disconnected, its requests in flight are
\* abandoned: none of them makes a further upstream call, resumes from a
\* backoff or chunk wait, or emits a further event.
C16_DisconnectAbandons ==
  [][\A r \in InFlight :
       conn[r.sock] = "closed" =>
         \A r2 \in req' :
           r2.id = r.id => r2.calls = r.calls /\ r2.pc = r.pc /\ r2.sent = r.sent]_vars

\* the payloads of the bot_message_chunk events of a sequence, joined in order
RECURSIVE ConcatChunks(_)
ConcatChunks(events) ==
  IF events = <<>> THEN <<>>
  ELSE (IF Head(events).type = "bot_message_chunk" THEN Head(events).payload ELSE <<>>)
       \o ConcatChunks(Tail(events))

IsPrefix(p, t) == Len(p) <= Len(t) /\ p = SubSeq(t, 1, Len(p))

\* C17: for every generated text T of spaces and letters (one word, several
\* words, consecutive spaces, the empty text), the chunk payloads of the
\* request joined in the order sent are a prefix of T while the request
\* streams and are exactly T, followed by the done, when it has ended.
C17_ChunksConcatToText ==
  \A r \in req :
    Succeeded(r) =>
      /\ IsPrefix(ConcatChunks(r.sent), r.last.text)
      /\ r.pc = "done" =>
           /\ ConcatChunks(r.sent) = r.last.text
           /\ r.sent[Len(r.sent)] = Done
           /\ Chunks(r) = Len(r.sent) - 1

\* a text with two consecutive spaces was sent in three or more chunks
C17_Witness ==
  \E r \in req :
    /\ Succeeded(r) /\ r.pc = "done" /\ Chunks(r) >= 3
    /\ \E k \in 1..(Len(r.last.text) - 1) : r.last.text[k] = " " /\ r.last.text[k + 1] = " "
    /\ ConcatChunks(r.sent) = r.last.text

FlowStep(b) ==
  \/ conn'[b] # conn[b] /\ (Connect(b) \/ Disconnect(b) \/ ORConnect(b) \/ ORDisconnect(b))
  \/ received' = received /\ ClearHistory(b)
  \/ received' # received /\ \E m \in Messages : UserMessage(b, m) \/ ORUserMessage(b, m)
  \/ \E r \in req :
       /\ r.sock = b /\ r.pc \in InFlightPcs /\ r \notin req'
       /\ \/ GeminiRetry(r) \/ ChunkResume(r) \/ ORRetry(r)
          \/ \E resp \in Responses : GeminiResponse(r, resp) \/ ORResponse(r, resp)

\* what session a has: its connection, its entry in the store, and its
\* requests in flight with all they have done and sent
SessionView(cn, map, rq, a) ==
  <<cn[a], a \in DOMAIN map, MapGetOrEmpty(map, a),
    {r \in rq : r.sock = a /\ r.pc \in InFlightPcs}>>

\* C19: sessions do not interfere: every step of one session's flow (a
\* message accepted, a call answered, a retry, a chunk sent, a clear, a
\* disconnect) leaves the connection, the stored turns and the suspended
\* requests of every other session exactly as they were, so whatever the
\* interleaving each session's history and chunk sequences are those of its
\* own steps alone.
C19_SessionsIndependent ==
  [][\A a \in Sockets :
       \/ SessionView(conn', conversationHistory', req', a)
            = SessionView(conn, conversationHistory, req, a)
       \/ \A b \in Sockets \ {a} : ~FlowStep(b)]_vars

\* while a request of one session waits in a backoff, a request of another
\* session that arrived later has been answered and streamed to its end
C19_Witness ==
  \E ra \in InFlight, rb \in req :
    /\ ra.sock # rb.sock /\ ra.id < rb.id
    /\ ra.pc = "backoff"
    /\ rb.pc = "done" /\ Succeeded(rb) /\ Chunks(rb) >= 3

\* the number of words in the k-th event sent, a chunk: every word but the
\* first of the text is sent with one space before it, and no word holds one
WordsInChunk(sent, k) ==
  Cardinality({n \in DOMAIN sent[k].payload : sent[k].payload[n] = " "})
    + (IF k = 1 THEN 1 ELSE 0)

\* C20: when a text has been streamed, every chunk but the last holds exactly
\* 4 words, the last holds 1 to 4 words, and the request has paused once
\* between each two consecutive chunks and not after the last.
C20_FlushEveryK ==
  \A r \in req :
    variant = "gemini" /\ Succeeded(r) /\ r.pc = "done" =>
      /\ \A k \in 1..(Chunks(r) - 1) : WordsInChunk(r.sent, k) = wordsPerFlush
      /\ WordsInChunk(r.sent, Chunks(r)) \in 1..wordsPerFlush
      /\ r.pauses = Chunks(r) - 1

\* what the loop does: the first chunk holds the first word alone, the
\* chunks between it and the last hold 4 words, the last 1 to 4
C20_FirstWordAlone ==
  \A r \in req :
    variant = "gemini" /\ Succeeded(r) /\ r.pc = "done" =>
      /\ WordsInChunk(r.sent, 1) = 1
      /\ \A k \in 2..(Chunks(r) - 1) : WordsInChunk(r.sent, k) = wordsPerFlush
      /\ WordsInChunk(r.sent, Chunks(r)) \in 1..wordsPerFlush
      /\ r.pauses = Chunks(r) - 1

\* C21: in every state between handler steps, every stored history has even
\* length and its roles alternate user, assistant, user, assistant, ...
\* beginning with a user turn, whatever requests, clears and sweeps were
\* interleaved and whether or not the cap has dropped turns.
C21_HistoryAlternates ==
  \A s \in DOMAIN conversationHistory :
    LET history == conversationHistory[s]
    IN /\ Len(history) % 2 = 0
       /\ \A n \in DOMAIN history :
            history[n].role = (IF n % 2 = 1 THEN "user" ELSE "assistant")

\* two requests of one session were in flight together, the cap has dropped
\* the oldest turns, and the stored history has 10 alternating turns
C21_Witness ==
  \E s \in DOMAIN conversationHistory :
    /\ Len(appended[s]) > HistoryCap
    /\ Len(conversationHistory[s]) = HistoryCap
    /\ conversationHistory[s][1].role = "user"
    /\ conversationHistory[s][HistoryCap].role = "assistant"
    /\ \E r \in InFlight : r.sock = s /\ r.touched

\* C22: when the history of a session was cleared (clear_history or POST
\* /clear-history) while a request of the session was waiting for its answer
\* and the request then succeeded, the request is not cancelled and, once
\* its done is sent, the session has an entry again and it holds exactly the
\* two turns of that request.
C22_ClearThenSuccess ==
  \A r \in req :
    r.cleared /\ Succeeded(r) /\ r.pc = "done" =>
      /\ r.sock \in DOMAIN conversationHistory
      /\ conversationHistory[r.sock]
           = <<Turn("user", r.message), Turn("assistant", r.last.text)>>

\* C23: in the Hugging Face server, a user_message whose model check
\* succeeded makes at most 5 generation attempts; an attempt that fails, with
\* whatever error, is followed by a wait of 2000 ms, the last one too, and by
\* the next attempt while fewer than 5 were made; the first attempt that
\* returns ends the loop; and the request sends exactly one chunk (the
\* generated text, the no-response notice, or the error of the exhausted
\* retries) and then exactly one done.
C23_HuggingFaceRetryLoop ==
  \A r \in req :
    r.calls > 0 =>
      /\ r.calls <= 5 /\ r.calls = r.retryCount + (IF r.pc = "done" /\ r.last.kind = "error" THEN 0 ELSE 1)
      /\ \A n \in DOMAIN r.waits : r.waits[n] = 2000
      /\ Len(r.waits) = (IF r.last.kind = "error" THEN r.calls ELSE r.calls - 1)
      /\ r.pc = "await" => r.sent = <<>> /\ r.last = NoResponse
      /\ r.last.kind = "error" =>
           IF r.calls < 5 THEN r.pc = "backoff" /\ r.sent = <<>>
           ELSE \/ r.pc = "backoff" /\ r.sent = <<Chunk(MsgExhausted)>>
                \/ r.pc = "done" /\ r.sent = <<Chunk(MsgExhausted), Done>>
      /\ r.last.kind \in {"ok", "empty"} =>
           /\ r.pc = "done"
           /\ r.calls = r.responses
           /\ r.sent = <<Chunk(IF r.last.kind = "ok" /\ r.last.text \notin {<<>>, Undefined}
                               THEN r.last.text ELSE MsgNoResponse), Done>>
      /\ r.pc = "done" => Chunks(r) = 1 /\ Dones(r) = 1 /\ r.sent[2] = Done

\* the fifth attempt has failed, the error was sent, the last wait of 2000 ms
\* is over and the done was sent
C23_Witness ==
  \E r \in req :
    /\ variant = "huggingface"
    /\ r.pc = "done" /\ r.calls = 5 /\ r.last.kind = "error"
    /\ r.waits = <<2000, 2000, 2000, 2000, 2000>>
    /\ r.sent = <<Chunk(MsgExhausted), Done>>

====
